---- MODULE Spec2Model ----
(***************************************************************************)
(* Loose Dirt: a falling-sand automaton on a tilemap of entities.           *)
(*                                                                          *)
(* One frame of the application runs three stages in order                  *)
(*   Interact : change_element   (paint a square of tiles)                  *)
(*   Run      : rules            (one pass over the changed tiles)          *)
(*   Tally    : neighbours       (changed tiles push their element to the   *)
(*                                four adjacent tiles' neighbour components)*)
(* The tilemap (width, height, content) is built once by the plugin and the *)
(* startup system init; Init below is the state right after startup.        *)
(***************************************************************************)
EXTENDS Integers, Sequences, FiniteSets, TLC

\* ---------------------------------------------------------------- bounds
MaxW == 3
MaxH == 3
MaxBrush == 1
MaxEdits == 2
\* tilemaps of more tiles than this are painted with the one-tile brush only
MaxBrushArea == 4
MaxPileEdits == 3
PileSide == 2

\* ------------------------------------------------------------- constants
\* BRUSH_SIZE = 0..4: the wheel clamps brush.size to [start, end]
BRUSH_SIZE_start == 0
BRUSH_SIZE_end == 4
\* eagerness of the two callers of destabilize_offset, in tenths
EagernessWater == 50
EagernessSand == 13
\* one whole unit of the random draw, in tenths
Unit == 10
\* u8 arithmetic of support strength
U8 == 256
\* the strength from which a pile destabilizes
Threshold == 3

VARIABLES
    width,      \* Tilemap.width
    height,     \* Tilemap.height
    content,    \* Tilemap.content: index -> entity
    position,   \* TilePosition of each tile entity
    element,    \* Element component of each tile entity
    up,         \* UpNeighbour<Element> of each tile (NoneE: component absent)
    down,       \* DownNeighbour<Element>
    left,       \* LeftNeighbour<Element>
    right,      \* RightNeighbour<Element>
    chg_rules,  \* tiles passing the Changed filter of the rules query
    chg_tally,  \* tiles passing Changed<Tile> of the neighbours query
    stage,      \* the stage that runs next: "Interact", "Run", "Tally"
    todo,       \* tiles the rules query iterator may still yield
    edits,      \* number of frames with a pressed mouse button so far
    frame,      \* 1 in the first frame, 2 in every later one
    loaded,     \* history: element each tile was created with
    prev,       \* history: element of each tile at the end of the last frame
    targets,    \* history: tiles a swap of this pass has written as destination
    written,    \* history: tiles a commit of this pass has written
    last        \* history: the latest rule evaluation of this pass

vars == <<width, height, content, position, element, up, down, left, right,
          chg_rules, chg_tally, stage, todo, edits, frame, loaded, prev,
          targets, written, last>>

\* ---------------------------------------------------------------- Element
Air == [tag |-> "Air", n |-> 0]
Rock == [tag |-> "Rock", n |-> 0]
Water == [tag |-> "Water", n |-> 0]
Sand(n) == [tag |-> "Sand", n |-> n]
\* Option::None of a neighbour component
NoneE == [tag |-> "None", n |-> 0]

IsSand(e) == e.tag = "Sand"

\* PALETTE, and Air for the right mouse button
PALETTE == {Rock, Water, Sand(0)}

\* Option<Entity>::None of Tilemap::get, also the placeholder Entity::new(0)
NoEntity == 0

Entities == 1..(width * height)

\* history record of one rule evaluation; NoEval: none yet in this pass
NoEval ==
    [ent |-> NoEntity, elem |-> NoneE, up |-> NoneE, down |-> NoneE,
     left |-> NoneE, right |-> NoneE, kind |-> "none", dest |-> <<0, 0>>,
     target |-> NoEntity, held |-> NoneE, drew |-> FALSE, sum |-> 0,
     was_target |-> FALSE]

\* ---------------------------------------------------------------- Tilemap
\* mutant: the row stride taken from the height
index_by_height(x, y) == y * height + x

index(x, y) == y * width + x

\* Tilemap::iter: y outer, x inner
iter(w, h) == [k \in 1..(w * h) |-> <<(k - 1) % w, (k - 1) \div w>>]

get(x, y) ==
    IF x < 0 \/ y < 0 \/ x >= width \/ y >= width
    THEN NoEntity
    ELSE IF index(x, y) < Len(content) THEN content[index(x, y) + 1] ELSE NoEntity

\* the startup system init: spawn one tile per cell and store it at its index
RECURSIVE init_loop(_, _, _)
init_loop(c, cells, k) ==
    IF k > Len(cells) THEN c
    ELSE init_loop([c EXCEPT ![index(cells[k][1], cells[k][2]) + 1] = k], cells, k + 1)

init_content(w, h) == init_loop([i \in 1..(w * h) |-> NoEntity], iter(w, h), 1)

\* the state after startup of a w x h tilemap: the initializer gives every
\* tile the one template of the plugin
started(w, h, template) ==
    /\ width = w
    /\ height = h
    /\ content = init_content(w, h)
    /\ position = iter(w, h)
    /\ element = [e \in 1..(w * h) |-> template]
    /\ up = [e \in 1..(w * h) |-> NoneE]
    /\ down = [e \in 1..(w * h) |-> NoneE]
    /\ left = [e \in 1..(w * h) |-> NoneE]
    /\ right = [e \in 1..(w * h) |-> NoneE]
    /\ chg_rules = [e \in 1..(w * h) |-> TRUE]
    /\ chg_tally = [e \in 1..(w * h) |-> TRUE]
    /\ stage = "Interact"
    /\ todo = {}
    /\ edits = 0
    /\ frame = 1
    /\ loaded = [e \in 1..(w * h) |-> template]
    /\ prev = [e \in 1..(w * h) |-> template]
    /\ targets = {}
    /\ written = {}
    /\ last = NoEval

\* main: TilemapPlugin::new(width, height, DOT_SIZE, Element::Air)
Init ==
    \E w \in 1..MaxW, h \in 1..MaxH :
        started(w, h, Air)

\* ----------------------------------------------------------- change_element
\* the tiles of the brush square that Tilemap::get finds
brush_tiles(cx, cy, size) ==
    {get(cx + xo, cy + yo) : xo \in (-size)..size, yo \in (-size)..size} \ {NoEntity}

begin_pass ==
    /\ stage' = "Run"
    /\ todo' = Entities

\* the paint loop: every tile get finds in the square around the cursor cell
\* is assigned the target, and the pass of the frame follows
paint(cx, cy, size, target) ==
    /\ stage = "Interact"
    /\ LET tiles == brush_tiles(cx, cy, size) IN
        /\ element' = [e \in Entities |-> IF e \in tiles THEN target ELSE element[e]]
        /\ chg_rules' = [e \in Entities |-> chg_rules[e] \/ e \in tiles]
        /\ chg_tally' = [e \in Entities |-> chg_tally[e] \/ e \in tiles]
    /\ edits' = edits + 1
    /\ begin_pass
    /\ UNCHANGED <<width, height, content, position, up, down, left, right, frame, loaded, prev,
                   targets, written, last>>

\* one mouse button is pressed: paint the square around the cursor cell
change_element(cx, cy, size, target) ==
    /\ edits < MaxEdits
    /\ paint(cx, cy, size, target)

\* no button, or more than one, is pressed: change_element returns at once
no_press ==
    /\ stage = "Interact"
    /\ UNCHANGED element
    /\ begin_pass
    /\ UNCHANGED <<width, height, content, position, up, down, left, right,
                   chg_rules, chg_tally, edits, frame, loaded, prev, targets, written, last>>

\* -------------------------------------------------------------------- rules
support_strength(el) ==
    IF IsSand(el) THEN 1 ELSE IF el = Rock THEN 2 ELSE 0

\* the bounds of the uniform draw of destabilize_offset, in tenths
\* mutant: the lower bound of the draw does not look at the Left entry
draw_min_always(l, eagerness) == -eagerness

draw_min(l, eagerness) == IF l \in {Air, Water} THEN -eagerness ELSE 0
\* mutant: the upper bound of the draw does not look at the Right entry
draw_max_always(r, eagerness) == eagerness

draw_max(r, eagerness) == IF r \in {Air, Water} THEN eagerness ELSE 0

\* `as isize` truncates toward zero
as_isize(rnd) == IF rnd >= 0 THEN rnd \div Unit ELSE -((-rnd) \div Unit)

\* mutant: the truncated draw returned without signum
signum_raw(i) == i

signum(i) == IF i > 0 THEN 1 ELSE IF i < 0 THEN -1 ELSE 0

\* destabilize_offset: every value the draw from [min, max] can give
destabilize_offset(l, r, eagerness) ==
    {signum(as_isize(rnd)) : rnd \in draw_min(l, eagerness)..draw_max(r, eagerness)}

\* mutant: the arms match Some(Rock) only, not None
rock_stays_no_edge(u, d, l, r) == u = Rock \/ d = Rock \/ l = Rock \/ r = Rock

\* Rock stays when any of the four neighbours is Rock or absent
rock_stays(u, d, l, r) ==
    \/ u \in {Rock, NoneE}
    \/ d \in {Rock, NoneE}
    \/ l \in {Rock, NoneE}
    \/ r \in {Rock, NoneE}

\* the unwrapped sum of the strength of a sand tile over Sand(distance)
strength_sum(d, l, r) == d.n + support_strength(l) + support_strength(r) + 1

strength(d, l, r) == strength_sum(d, l, r) % U8

\* mutant: the threshold itself still compacts
compacts_le(s) == s <= Threshold

\* a pile below the threshold compacts in place
compacts(s) == s < Threshold

\* the eagerness of the draw the match arm makes, 0 when it makes none
eagerness_of(el, d, l, r) ==
    IF el = Water
    THEN IF d = Air THEN 0 ELSE EagernessWater
    ELSE IF IsSand(el) /\ IsSand(d) /\ ~compacts(strength(d, l, r))
         THEN EagernessSand
         ELSE 0

\* mutant: falling moves to the row the Up entry reports
fall_y_up(y) == y + 1

\* the row a falling Water or Sand tile moves to
fall_y(y) == y - 1

\* the match of rules: (dest_x, dest_y, dest_element), or continue
rule(el, u, d, l, r, x, y, off) ==
    IF el = Rock THEN
        IF rock_stays(u, d, l, r)
        THEN [cont |-> TRUE, x |-> x, y |-> y, el |-> el]
        ELSE [cont |-> FALSE, x |-> x, y |-> y, el |-> Sand(0)]
    ELSE IF el = Water THEN
        IF d = Air
        THEN [cont |-> FALSE, x |-> x, y |-> fall_y(y), el |-> Water]
        ELSE [cont |-> FALSE, x |-> x + off, y |-> y, el |-> Water]
    ELSE IF IsSand(el) THEN
        IF d \in {Air, Water}
        THEN [cont |-> FALSE, x |-> x, y |-> fall_y(y), el |-> Sand(0)]
        ELSE IF d \in {Rock, NoneE}
        THEN [cont |-> FALSE, x |-> x, y |-> y, el |-> Sand(0)]
        ELSE IF compacts(strength(d, l, r))
        THEN [cont |-> FALSE, x |-> x, y |-> y, el |-> Sand(strength(d, l, r))]
        ELSE [cont |-> FALSE, x |-> x + off, y |-> y, el |-> Sand(0)]
    ELSE [cont |-> TRUE, x |-> x, y |-> y, el |-> el]

\* the commit at the end of the loop body: what it does to tile e
commit_kind(e, out) ==
    IF out.cont THEN "continue"
    ELSE IF out.x = position[e][1] /\ out.y = position[e][2]
    THEN IF element[e] # out.el THEN "write" ELSE "same"
    ELSE IF get(out.x, out.y) # NoEntity THEN "swap" ELSE "miss"

commit_target(e, out) ==
    IF commit_kind(e, out) = "swap" THEN get(out.x, out.y) ELSE NoEntity

\* mutant: a move that overwrites the destination and leaves Air behind
commit_element_move(e, out) ==
    LET kind == commit_kind(e, out)
        t == commit_target(e, out)
    IN  IF kind = "write" THEN [element EXCEPT ![e] = out.el]
        ELSE IF kind = "swap" THEN [element EXCEPT ![e] = Air, ![t] = element[e]]
        ELSE element

\* mutant: the swap writes the destination only and leaves the source as it was
commit_element_copy(e, out) ==
    LET kind == commit_kind(e, out)
        t == commit_target(e, out)
    IN  IF kind = "write" THEN [element EXCEPT ![e] = out.el]
        ELSE IF kind = "swap" THEN [element EXCEPT ![t] = element[e]]
        ELSE element

commit_element(e, out) ==
    LET kind == commit_kind(e, out)
        t == commit_target(e, out)
    IN  IF kind = "write" THEN [element EXCEPT ![e] = out.el]
        ELSE IF kind = "swap" THEN [element EXCEPT ![e] = element[t], ![t] = element[e]]
        ELSE element

\* the tiles whose Element the commit dereferences mutably
commit_touched(e, out) ==
    LET kind == commit_kind(e, out) IN
    IF kind = "write" THEN {e}
    ELSE IF kind = "swap" THEN {e, commit_target(e, out)}
    ELSE {}

\* mutant: the neighbours read from the tilemap as it is now
snapshot_live(e) ==
    LET live(x, y) == IF get(x, y) = NoEntity THEN NoneE ELSE element[get(x, y)]
        x == position[e][1]
        y == position[e][2]
    IN  <<live(x, y + 1), live(x, y - 1), live(x - 1, y), live(x + 1, y)>>

\* the neighbour components the query hands to the loop body: up, down, left, right
snapshot(e) == <<up[e], down[e], left[e], right[e]>>

\* the filter of the query and the Air test at the top of the loop body
active(e) == chg_rules[e] /\ element[e] # Air

\* The iterator yields every tile once, in an order the query does not fix,
\* and tests the filter when it reaches the tile.  A tile that is not active
\* does nothing when reached, so whether the iterator is already past it
\* matters only at the moment a swap makes it active: passed says so then.
rules_eval(e, off, passed) ==
    /\ stage = "Run"
    /\ e \in todo
    /\ active(e)
    /\ LET el == element[e]
           u == snapshot(e)[1]
           d == snapshot(e)[2]
           l == snapshot(e)[3]
           r == snapshot(e)[4]
           out == rule(el, u, d, l, r, position[e][1], position[e][2], off)
           touched == commit_touched(e, out)
           t == commit_target(e, out)
       IN  /\ off \in destabilize_offset(l, r, eagerness_of(el, d, l, r))
           /\ passed => t \in todo /\ ~active(t)
           /\ element' = commit_element(e, out)
           /\ chg_rules' = [n \in Entities |-> chg_rules[n] \/ n \in touched]
           /\ chg_tally' = [n \in Entities |-> chg_tally[n] \/ n \in touched]
           /\ written' = written \cup touched
           /\ targets' = targets \cup ({t} \ {NoEntity})
           /\ todo' = todo \ ({e} \cup (IF passed THEN {t} ELSE {}))
           /\ last' = [ent |-> e, elem |-> el, up |-> u, down |-> d,
                       left |-> l, right |-> r,
                       kind |-> commit_kind(e, out), dest |-> <<out.x, out.y>>,
                       target |-> t,
                       held |-> IF t = NoEntity THEN NoneE ELSE element[t],
                       drew |-> eagerness_of(el, d, l, r) # 0,
                       sum |-> IF IsSand(el) /\ IsSand(d) THEN strength_sum(d, l, r) ELSE 0,
                       was_target |-> e \in targets]
    /\ UNCHANGED <<width, height, content, position, up, down, left, right,
                   stage, edits, frame, loaded, prev>>

\* the iterator is exhausted; the system's last change tick moves on
rules_done ==
    /\ stage = "Run"
    /\ \A t \in todo : ~active(t)
    /\ stage' = "Tally"
    /\ todo' = {}
    /\ chg_rules' = [e \in Entities |-> FALSE]
    /\ UNCHANGED <<width, height, content, position, element, up, down, left, right,
                   chg_tally, edits, frame, loaded, prev, targets, written, last>>

\* --------------------------------------------------------------- neighbours
\* mutant: the entry taken from the tile at the offset instead of pushed to it
pushers_from(n, dx, dy) ==
    {e \in Entities : chg_tally[e] /\ get(position[e][1] - dx, position[e][2] - dy) = n}

\* the changed tiles whose mark_neighbour(x + dx, y + dy) reaches tile n
pushers(n, dx, dy) ==
    {e \in Entities : chg_tally[e] /\ get(position[e][1] + dx, position[e][2] + dy) = n}

mark_neighbour(old, dx, dy) ==
    [n \in Entities |->
        IF pushers(n, dx, dy) # {}
        THEN element[CHOOSE e \in pushers(n, dx, dy) : TRUE]
        ELSE old[n]]

marked(n) ==
    \/ pushers(n, 0, -1) # {}
    \/ pushers(n, 0, 1) # {}
    \/ pushers(n, 1, 0) # {}
    \/ pushers(n, -1, 0) # {}

\* the system neighbours and the commands it queued, applied at the stage's end
neighbours ==
    /\ stage = "Tally"
    /\ up' = mark_neighbour(up, 0, -1)
    /\ down' = mark_neighbour(down, 0, 1)
    /\ left' = mark_neighbour(left, 1, 0)
    /\ right' = mark_neighbour(right, -1, 0)
    /\ chg_rules' = [n \in Entities |-> chg_rules[n] \/ marked(n)]
    /\ chg_tally' = [n \in Entities |-> FALSE]
    /\ stage' = "Interact"
    /\ frame' = 2
    /\ prev' = element
    /\ targets' = {}
    /\ written' = {}
    /\ last' = NoEval
    /\ UNCHANGED <<width, height, content, position, element, todo, edits, loaded>>

\* --------------------------------------------------------------------- Next
\* the values of brush.size explored: within BRUSH_SIZE and the bounds
brush_sizes ==
    {b \in BRUSH_SIZE_start..BRUSH_SIZE_end :
        b <= MaxBrush /\ (b = 0 \/ width * height <= MaxBrushArea)}

ChangeElement ==
    \E cx \in (-1)..width, cy \in (-1)..height, size \in brush_sizes,
       target \in PALETTE \cup {Air} :
        change_element(cx, cy, size, target)

RulesEval ==
    \E e \in Entities, off \in {-1, 0, 1}, passed \in BOOLEAN :
        rules_eval(e, off, passed)

Next ==
    \/ ChangeElement
    \/ no_press
    \/ RulesEval
    \/ rules_done
    \/ neighbours

Spec == Init /\ [][Next]_vars

\* The largest tilemap, painted one tile at a time with Rock and Sand only:
\* the setting of a grain of sand falling onto a floor.
GrainInit == started(MaxW, MaxH, Air)

GrainEdit ==
    \E cx \in 0..(width - 1), cy \in 0..(height - 1), target \in {Rock, Sand(0)} :
        change_element(cx, cy, BRUSH_SIZE_start, target)

GrainNext ==
    \/ GrainEdit
    \/ no_press
    \/ RulesEval
    \/ rules_done
    \/ neighbours

\* the application loop runs the stages of every frame in turn and never stops
GrainSpec == GrainInit /\ [][GrainNext]_vars /\ WF_vars(GrainNext)

\* TilemapPlugin::new takes any usize for width and height, zero included
PluginInit ==
    \E w \in 0..MaxW, h \in 0..MaxH :
        started(w, h, Air)

PluginSpec == PluginInit /\ [][Next]_vars

\* A small square tilemap edited for one frame more than Spec allows, with
\* every brush and cursor cell, painting Sand and Water: a pile of Sand
\* beside a pool of Water takes three edits.
PileInit == started(PileSide, PileSide, Air)

PileEdit ==
    \E cx \in (-1)..width, cy \in (-1)..height, size \in brush_sizes,
       target \in {Sand(0), Water} :
        /\ edits < MaxPileEdits
        /\ paint(cx, cy, size, target)

PileNext ==
    \/ PileEdit
    \/ no_press
    \/ RulesEval
    \/ rules_done
    \/ neighbours

PileSpec == PileInit /\ [][PileNext]_vars

\* The column of the scenario laid out through the editor on a tilemap of
\* the largest height: Rock on the bottom cell of a column, then, in a later
\* frame, Sand(0) on the top cell of the same column.
ScenarioInit ==
    \E w \in 1..MaxW :
        started(w, MaxH, Air)

ScenarioEdit ==
    \E cx \in 0..(width - 1) :
        \/ /\ edits = 0
           /\ paint(cx, 0, BRUSH_SIZE_start, Rock)
        \/ /\ edits = 1
           /\ element[get(cx, 0)] = Rock
           /\ paint(cx, height - 1, BRUSH_SIZE_start, Sand(0))

ScenarioNext ==
    \/ ScenarioEdit
    \/ no_press
    \/ RulesEval
    \/ rules_done
    \/ neighbours

ScenarioSpec == ScenarioInit /\ [][ScenarioNext]_vars

\* ================================================================== claims
\* the values an Element component can hold
Elements == {Air, Rock, Water} \cup {Sand(n) : n \in 0..(U8 - 1)}

in_range(x, y) == x >= 0 /\ y >= 0 /\ x < width /\ y < height

\* the tile spawned for cell (x, y), NoEntity outside the tilemap
tile_at(x, y) ==
    IF in_range(x, y) THEN CHOOSE e \in Entities : position[e] = <<x, y>> ELSE NoEntity

\* the element tile e has in el, None for no tile
element_in(el, e) == IF e = NoEntity THEN NoneE ELSE el[e]

evaluated == last.ent # NoEntity

last_x == position[last.ent][1]
last_y == position[last.ent][2]

open(el) == el \in {Air, Water} \/ IsSand(el)

\* C1: the tilemap holds exactly width * height tiles, every cell of
\* [0,width) x [0,height) is the cell of exactly one of them, and every tile
\* holds exactly one element, in every state edits and ticks reach.
C1_Conservation ==
    /\ Len(content) = width * height
    /\ DOMAIN element = 1..(width * height)
    /\ \A x \in 0..(width - 1), y \in 0..(height - 1) :
        /\ index(x, y) \in 0..(width * height - 1)
        /\ content[index(x, y) + 1] \in Entities
        /\ position[content[index(x, y) + 1]] = <<x, y>>
        /\ element[content[index(x, y) + 1]] \in Elements
    /\ \A e \in Entities : content[index(position[e][1], position[e][2]) + 1] = e

\* C1 witness: a pass over the largest tilemap that committed a swap has ended
C1_Witness ==
    /\ stage = "Tally"
    /\ targets # {}
    /\ last.kind = "swap"
    /\ width * height = MaxW * MaxH

\* C2 as claimed: a Rock tile evaluated with at least one neighbour entry
\* Air, Water or Sand holds Sand(0) after its evaluation.
C2_Original ==
    (evaluated /\ last.elem = Rock
        /\ (open(last.up) \/ open(last.down) \/ open(last.left) \/ open(last.right)))
    => element[last.ent] = Sand(0)

all_rock == \A e \in Entities : element[e] = Rock

\* C3: during a pass a Rock tile whose four entries are each Rock or absent
\* stays Rock at every step, and a tilemap of Rock only changes in no step
\* other than an edit.
C3_SolidStays ==
    [][/\ \A e \in Entities :
            (stage = "Run" /\ element[e] = Rock
                /\ up[e] \in {Rock, NoneE} /\ down[e] \in {Rock, NoneE}
                /\ left[e] \in {Rock, NoneE} /\ right[e] \in {Rock, NoneE})
            => element'[e] = Rock
       /\ (all_rock /\ edits' = edits) => element' = element]_vars

\* C3 witness: a pass over a tilemap of several tiles, all Rock, has ended
\* after one of them was evaluated with entries Rock or absent only
C3_Witness ==
    /\ stage = "Tally"
    /\ width * height >= 2
    /\ all_rock
    /\ evaluated
    /\ {last.up, last.down, last.left, last.right} \subseteq {Rock, NoneE}
    /\ Rock \in {last.up, last.down, last.left, last.right}

\* C4 as claimed: get(x, y) is None exactly outside [0,width) x [0,height)
\* and is otherwise the tile of cell (x, y).
C4_GetTotal ==
    \A x \in (-1)..MaxW, y \in (-1)..MaxH :
        /\ (get(x, y) = NoEntity) <=> ~in_range(x, y)
        /\ in_range(x, y) => get(x, y) = tile_at(x, y)

\* C5: from the second frame on, the four neighbour values a rule evaluation
\* reads are the elements the adjacent tiles held at the end of the previous
\* frame (None where there is no adjacent tile), not what they hold now.
C5_ReadsPrevious ==
    (evaluated /\ frame = 2) =>
        /\ last.up = element_in(prev, tile_at(last_x, last_y + 1))
        /\ last.down = element_in(prev, tile_at(last_x, last_y - 1))
        /\ last.left = element_in(prev, tile_at(last_x - 1, last_y))
        /\ last.right = element_in(prev, tile_at(last_x + 1, last_y))

\* C5 witness: an evaluation read an entry that this frame's edit or an
\* earlier commit of the pass had already made stale
C5_Witness ==
    /\ evaluated
    /\ frame = 2
    /\ tile_at(last_x, last_y - 1) # NoEntity
    /\ last.down # element[tile_at(last_x, last_y - 1)]
    /\ tile_at(last_x, last_y - 1) \in written \ {last.ent}

\* C6 as claimed: a tile that was the destination of a swap earlier in the
\* pass is not evaluated later in that pass.
C6_NoReevaluation == evaluated => ~last.was_target

\* C7 as claimed: on the tilemap of width 1 and height 3, once the column of
\* the scenario has been laid out (Rock on the bottom cell (0, 0), then
\* Sand(0) on the top cell (0, 2), Air between them), every tick ends with
\* Rock, Sand(0), Air from the bottom up: the tick of the frame that placed
\* the sand moves it down one cell, and every later tick leaves it there.
C7_Scenario ==
    (width = 1 /\ height = 3 /\ edits = 2 /\ stage = "Tally") =>
        /\ element[tile_at(0, 0)] = Rock
        /\ element[tile_at(0, 1)] = Sand(0)
        /\ element[tile_at(0, 2)] = Air

\* C7 on the square tilemap: on the tilemap of width 3 and height 3 the same
\* two edits on one column end every tick with Rock, Sand(0), Air in it.
C7_SquareColumn ==
    (width = 3 /\ height = 3 /\ edits = 2 /\ stage = "Tally") =>
        \E x \in 0..(width - 1) :
            /\ element[tile_at(x, 0)] = Rock
            /\ element[tile_at(x, 1)] = Sand(0)
            /\ element[tile_at(x, 2)] = Air

\* the one Sand tile g above the Rock tile fl of the bottom row, a floor that
\* stood at the end of the last frame already, and all else Air
lone_grain(g, fl) ==
    /\ IsSand(element[g])
    /\ element[fl] = Rock
    /\ prev[fl] = Rock
    /\ position[fl] = <<position[g][1], 0>>
    /\ position[g][2] >= 1
    /\ \A e \in Entities \ {g, fl} : element[e] = Air
    /\ \A y \in 1..(position[g][2] - 1) : element[tile_at(position[g][1], y)] = Air

\* a lone grain above the floor, with no edit left to come
C8_Falling ==
    /\ edits = MaxEdits
    /\ \E g, fl \in Entities : lone_grain(g, fl)

C8_AtRest ==
    \E g, fl \in Entities :
        /\ lone_grain(g, fl)
        /\ position[g][2] = 1
        /\ element[g] = Sand(0)

\* C8: a Sand tile evaluated with Down = Rock holds Sand(0) in its own cell
\* after that evaluation; a lone grain over a Rock floor, with no edits,
\* eventually lies as Sand(0) in the cell above the floor; and once there it
\* stays there in every step that is not an edit.
C8_Settles ==
    /\ []((evaluated /\ IsSand(last.elem) /\ last.down = Rock)
            => (last.kind \in {"same", "write"} /\ element[last.ent] = Sand(0)))
    /\ (C8_Falling ~> C8_AtRest)
    /\ [][(C8_AtRest /\ edits' = edits) => C8_AtRest']_vars

\* C8 witness: the grain has fallen into the cell above the floor in a pass
\* and has then been evaluated there with Down = Rock
C8_Witness ==
    /\ C8_AtRest
    /\ edits = MaxEdits
    /\ stage = "Tally"
    /\ evaluated /\ IsSand(last.elem) /\ last.down = Rock
    /\ last.was_target

\* C9: every Sand element stored in a tile or in a neighbour entry has a
\* compaction of 0, 1 or 2, and the strength sum of an evaluation stays
\* inside u8.
C9_CompactionBound ==
    /\ \A e \in Entities :
        \A el \in {element[e], up[e], down[e], left[e], right[e]} :
            IsSand(el) => el.n \in {0, 1, 2}
    /\ evaluated => last.sum < U8

\* C9 witness: a tile holding Sand(2) computed a strength of 3 or more and
\* was reset to Sand(0)
C9_Witness ==
    /\ evaluated
    /\ last.elem = Sand(2)
    /\ last.sum >= Threshold
    /\ element[last.ent] = Sand(0)

\* C10: a Water tile at (x, y) evaluated with Down = Air has destination
\* (x, y - 1) without a lateral draw; the commit swaps, so the tile of
\* (x, y - 1) holds Water and the tile of (x, y) what that tile held.
C10_LiquidSeek ==
    (evaluated /\ last.elem = Water /\ last.down = Air) =>
        /\ last.dest = <<last_x, last_y - 1>>
        /\ ~last.drew
        /\ last.kind = "swap"
        /\ last.target = tile_at(last_x, last_y - 1)
        /\ element[last.target] = Water
        /\ element[last.ent] = last.held

\* C10 witness: the water swapped with a tile that an edit of this frame had
\* filled, so the swap brought that element up
C10_Witness ==
    /\ evaluated
    /\ last.elem = Water
    /\ last.down = Air
    /\ last.kind = "swap"
    /\ last.held = Rock
    /\ element[last.ent] = Rock

closed(el) == el \notin {Air, Water}

\* C11: for the Left and Right entries of every evaluation and both
\* eagernesses, every value destabilize_offset can return is -1, 0 or 1, and
\* it is 0 when neither Left nor Right is Air or Water; the evaluation that
\* drew moved by one of these values along x and not along y.
C11_OffsetBounds ==
    evaluated =>
        \A eagerness \in {EagernessWater, EagernessSand} :
            LET offs == destabilize_offset(last.left, last.right, eagerness) IN
            /\ offs # {}
            /\ offs \subseteq {-1, 0, 1}
            /\ (closed(last.left) /\ closed(last.right)) => offs = {0}
            /\ last.drew => (last.dest[1] - last_x \in offs /\ last.dest[2] = last_y)

\* C11 witness: a Water tile between a Rock entry and no tile drew and got 0
C11_Witness ==
    /\ evaluated
    /\ last.elem = Water
    /\ last.drew
    /\ {last.left, last.right} = {Rock, NoneE}
    /\ last.dest = <<last_x, last_y>>

\* C12 as claimed: no stage of any frame runs on a tilemap of width 0 or
\* height 0: construction with such a size does not get past startup.
C12_ZeroRejected ==
    (width = 0 \/ height = 0) => (stage = "Interact" /\ frame = 1)

\* tile e lies in the square of the given size around (cx, cy)
in_square(e, cx, cy, size) ==
    /\ position[e][1] - cx \in (-size)..size
    /\ position[e][2] - cy \in (-size)..size

\* C13 as claimed: an edit centred on (cx, cy) with brush size s and paint m
\* sets to m exactly the tiles of the tilemap inside the square, on every
\* tilemap, and leaves every other tile unchanged.
C13_EditExact ==
    [][\A cx \in (-1)..width, cy \in (-1)..height, size \in brush_sizes,
          target \in PALETTE \cup {Air} :
            change_element(cx, cy, size, target) =>
                \A e \in Entities :
                    element'[e] = IF in_square(e, cx, cy, size) THEN target ELSE element[e]]_vars

\* C14 as claimed: when a Sand tile moves to another cell, falling or
\* shifting sideways, the element that arrives at the destination is Sand(0).
C14_MoveResets ==
    (evaluated /\ IsSand(last.elem) /\ last.kind = "swap")
        => element[last.target] = Sand(0)

\* C15 as claimed: within one pass no swap is committed into a tile that an
\* earlier swap of the pass used as destination, and no swap touches a tile
\* an earlier commit of the pass has written.
C15_SwapsExclusive ==
    [][(stage = "Run" /\ last' # last /\ last'.kind = "swap") =>
          /\ last'.target \notin targets
          /\ {last'.ent, last'.target} \cap written = {}]_vars

\* C16 as claimed: the element a committed swap finds at its destination is
\* never Rock, so Rock is never moved to another cell; the claim's stronger
\* form, that the destination holds Air or Water, fails with it.
C16_SolidNeverMoves ==
    (evaluated /\ last.kind = "swap") => last.held # Rock

\* C17 as claimed: after the Tally stage of every frame, each of the four
\* neighbour entries of every tile is None exactly when there is no tile on
\* that side, and is otherwise the element that tile holds now.
C17_SnapshotComplete ==
    (stage = "Interact" /\ frame = 2) =>
        \A e \in Entities :
            /\ up[e] = element_in(element, tile_at(position[e][1], position[e][2] + 1))
            /\ down[e] = element_in(element, tile_at(position[e][1], position[e][2] - 1))
            /\ left[e] = element_in(element, tile_at(position[e][1] - 1, position[e][2]))
            /\ right[e] = element_in(element, tile_at(position[e][1] + 1, position[e][2]))

\* C18 as claimed: when the pass of a frame ends, the iterator has yielded
\* every tile that holds an element other than Air, so the rule was
\* evaluated for each of them in this frame.
C18_EveryTick ==
    [][(stage = "Run" /\ stage' = "Tally") =>
          \A e \in Entities : element[e] # Air => e \notin todo]_vars

reports(entry, x, y) ==
    entry # NoneE => (in_range(x, y) /\ entry = prev[tile_at(x, y)])

support(el) == CASE IsSand(el) -> 1 [] el = Rock -> 2 [] OTHER -> 0

\* C20 as claimed: a Sand tile evaluated with Down = Sand(d) whose strength
\* d + support(Left) + support(Right) + 1 is below 3 stays in its cell and
\* holds Sand(strength) after the tick: once its evaluation has written
\* Sand(strength), the next evaluation of the same pass leaves that cell alone.
C20_Strength ==
    [][(/\ stage = "Run" /\ stage' = "Run"
        /\ evaluated /\ IsSand(last.elem) /\ IsSand(last.down)
        /\ last.down.n + support(last.left) + support(last.right) + 1 < Threshold
        /\ element[last.ent] =
              Sand(last.down.n + support(last.left) + support(last.right) + 1))
       => element'[last.ent] = element[last.ent]]_vars

\* the number of tiles whose element in el has one of the given tags
count(el, tags) == Cardinality({e \in Entities : el[e].tag \in tags})

\* C21: every step of a frame other than an edit keeps the number of Air
\* tiles, the number of Water tiles and the number of Rock and Sand tiles
\* together, and does not increase the number of Rock tiles.
C21_CountsKept ==
    [][edits' = edits =>
          /\ count(element', {"Air"}) = count(element, {"Air"})
          /\ count(element', {"Water"}) = count(element, {"Water"})
          /\ count(element', {"Rock", "Sand"}) = count(element, {"Rock", "Sand"})
          /\ count(element', {"Rock"}) <= count(element, {"Rock"})]_vars

\* C21 witness: in a frame without an edit a Rock tile that stood at the end
\* of the last frame was converted to Sand(0)
C21_Witness ==
    /\ evaluated
    /\ edits = 1
    /\ prev[last.ent] = Rock
    /\ last.elem = Rock
    /\ last.kind = "write"
    /\ element[last.ent] = Sand(0)
    /\ count(element, {"Rock"}) < count(prev, {"Rock"})

\* C22: an evaluation whose destination is in another column stays in its
\* row and goes one cell to the left only if its Left entry is Air or Water
\* and one cell to the right only if its Right entry is Air or Water, and
\* that entry is the element the tile of (x-1, y), respectively (x+1, y),
\* held at the end of the last frame.
C22_LateralOpenOnly ==
    (evaluated /\ last.dest[1] # last_x) =>
        /\ last.dest[2] = last_y
        /\ last.dest[1] \in {last_x - 1, last_x + 1}
        /\ last.dest[1] = last_x - 1 =>
            /\ last.left \in {Air, Water}
            /\ last.left = element_in(prev, tile_at(last_x - 1, last_y))
        /\ last.dest[1] = last_x + 1 =>
            /\ last.right \in {Air, Water}
            /\ last.right = element_in(prev, tile_at(last_x + 1, last_y))

\* C22 witness: a Water tile with Air reported on the left and Rock reported
\* on the right has moved one cell to the left
C22_Witness ==
    /\ evaluated
    /\ last.elem = Water
    /\ last.left = Air
    /\ last.right = Rock
    /\ last.dest = <<last_x - 1, last_y>>
    /\ last.kind = "swap"
    /\ last.target = tile_at(last_x - 1, last_y)

\* C23: the destination of every rule evaluation is the tile's own cell or a
\* cell of the tilemap that Tilemap::get finds, so the commit never meets a
\* destination without a tile.
C23_DestinationFound ==
    evaluated =>
        /\ last.kind # "miss"
        /\ in_range(last.dest[1], last.dest[2])
        /\ last.dest # <<last_x, last_y>> =>
            /\ get(last.dest[1], last.dest[2]) = tile_at(last.dest[1], last.dest[2])
            /\ last.target = tile_at(last.dest[1], last.dest[2])

\* C23 witness: a Water tile in the last column of the bottom row, with no
\* tile on its right and none below, drew an offset and moved to the left
C23_Witness ==
    /\ evaluated
    /\ last.elem = Water
    /\ last_x = width - 1
    /\ last_y = 0
    /\ last.right = NoneE
    /\ last.down = NoneE
    /\ last.drew
    /\ last.kind = "swap"
    /\ last.dest = <<last_x - 1, 0>>
====
